---------------------------- MODULE Spec2Model ----------------------------
(***************************************************************************)
(* A state-machine model of HotkeyInfo (src/3RVX/HotkeyInfo.cpp): one      *)
(* configured hotkey binding, its raw string arguments, the memoised typed *)
(* views of those arguments and the validator.                             *)
(*                                                                         *)
(* A wide string is a sequence of one-character strings, so that the       *)
(* numeric parsers can walk it character by character as wcstol / wcstod   *)
(* do.  Argument indices are 0-based as in the source; args[argIdx] of the *)
(* source is args[argIdx + 1] here.                                        *)
(***************************************************************************)
EXTENDS Integers, Sequences, FiniteSets, TLC

VARIABLES
    keyCombination,  \* int HotkeyInfo::keyCombination
    action,          \* int HotkeyInfo::action
    args,            \* std::vector<std::wstring> HotkeyInfo::args
    _cache,          \* bool HotkeyInfo::_cache
    _intArgs,        \* std::unordered_map<unsigned int, int> _intArgs
    _doubleArgs,     \* std::unordered_map<unsigned int, double> _doubleArgs
    alive,           \* FALSE once an out-of-bounds read has killed the process
    undefined,       \* TRUE once a read past the end of args has happened
    lastOp,          \* the member function called by the last step
    lastIdx,         \* its argIdx argument (0 when it takes none)
    ret,             \* the value it returned
    parsed,          \* whether it called std::stoi / std::stod
    log              \* the reasons it handed to LogInvalid, in order

vars == <<keyCombination, action, args, _cache, _intArgs, _doubleArgs,
          alive, undefined, lastOp, lastIdx, ret, parsed, log>>

(***************************************************************************)
(* The action catalog.                                                     *)
(***************************************************************************)
ActionNames ==
    << "Increase Volume", "Decrease Volume", "Set Volume", "Mute",
       "Show Volume Slider", "Eject Drive", "Eject Last Disk",
       "Increase Brightness", "Decrease Brightness", "Set Brightness",
       "Brightness Slider", "Media Key", "Virtual Key", "Run",
       "Enable/Disable OSD", "Open Settings Dialog", "Exit 3RVX" >>

\* The action codes: each is the index of its name in ActionNames.
IncreaseVolume == 0
DecreaseVolume == 1
SetVolume == 2
EjectDrive == 5
IncreaseBrightness == 7
DecreaseBrightness == 8
SetBrightness == 9
MediaKey == 11
Run == 13

\* enum VolumeKeyArgTypes
NoArgs == 0
Units == 1
Percent == 2

\* The range of int.
IntMax == 2147483647
IntMin == -IntMax - 1

(***************************************************************************)
(* unsigned int: 32 bits, kept as two 16-bit halves so that argIdx + 1     *)
(* wraps exactly as in the source.                                         *)
(***************************************************************************)
Half == 65536
U32(n) == [hi |-> n \div Half, lo |-> n % Half]
UIntMax == [hi |-> Half - 1, lo |-> Half - 1]

\* u + 1 in unsigned int arithmetic.
Succ32(u) ==
    IF u.lo < Half - 1 THEN [hi |-> u.hi, lo |-> u.lo + 1]
    ELSE [hi |-> (u.hi + 1) % Half, lo |-> 0]

\* size >= u, for a vector size (a size_t below 2^16) and an unsigned int u.
SizeGE(size, u) == u.hi = 0 /\ size >= u.lo

(***************************************************************************)
(* std::stoi(str, nullptr, base): wcstol skips leading white space, takes  *)
(* an optional sign and then the longest run of digits of the base; no     *)
(* digit at all throws std::invalid_argument, a value outside int throws   *)
(* std::out_of_range.  What follows the digits is ignored.  The strings of *)
(* the model hold no "0x" prefix.  Each step of the scan is an operator of *)
(* its own, handing what it found to the next one.                         *)
(***************************************************************************)
IsSpace(c) == c \in {" ", "\t", "\n"}

\* The value of character c as a digit, or -1 when it is none.
DigitVal(c) ==
    CASE c = "0" -> 0   [] c = "1" -> 1   [] c = "2" -> 2   [] c = "3" -> 3
      [] c = "4" -> 4   [] c = "5" -> 5   [] c = "6" -> 6   [] c = "7" -> 7
      [] c = "8" -> 8   [] c = "9" -> 9
      [] c \in {"a", "A"} -> 10   [] c \in {"b", "B"} -> 11
      [] c \in {"c", "C"} -> 12   [] c \in {"d", "D"} -> 13
      [] c \in {"e", "E"} -> 14   [] c \in {"f", "F"} -> 15
      [] OTHER -> -1

InBase(v, base) == v >= 0 /\ v < base
IsDigit(c, base) == InBase(DigitVal(c), base)

RECURSIVE SkipSpace(_, _)
SkipSpace(s, i) ==
    IF i <= Len(s) /\ IsSpace(s[i]) THEN SkipSpace(s, i + 1) ELSE i

\* The digits from position i on, accumulated as the NEGATED magnitude n (so
\* that the magnitude 2^31 of INT_MIN fits); ovf once it has left the range
\* of int.
RECURSIVE Accumulate(_, _, _, _, _, _)
RECURSIVE AccumulateDigit(_, _, _, _, _, _)
RECURSIVE AccumulateNext(_, _, _, _, _, _)
Accumulate(s, i, base, n, any, ovf) ==
    IF i <= Len(s) /\ IsDigit(s[i], base)
    THEN AccumulateDigit(s, i, base, n, ovf, DigitVal(s[i]))
    ELSE [n |-> n, any |-> any, ovf |-> ovf, end |-> i]

\* Digit d fits when n * base - d is still an int.
AccumulateDigit(s, i, base, n, ovf, d) ==
    AccumulateNext(s, i, base, n, d,
                   ~ovf /\ n >= (IntMin + d + base - 1) \div base)

AccumulateNext(s, i, base, n, d, fits) ==
    Accumulate(s, i + 1, base, IF fits THEN n * base - d ELSE n, TRUE, ~fits)

IsSign(s, i) == i <= Len(s) /\ s[i] \in {"+", "-"}

\* [ok, val]: ok is FALSE when std::stoi throws.
StoIResult(neg, acc) ==
    IF ~acc.any THEN [ok |-> FALSE, val |-> 0]
    ELSE IF acc.ovf \/ (~neg /\ acc.n = IntMin) THEN [ok |-> FALSE, val |-> 0]
    ELSE [ok |-> TRUE, val |-> IF neg THEN acc.n ELSE -acc.n]

StoISigned(s, base, i0, signed) ==
    StoIResult(signed /\ s[i0] = "-",
               Accumulate(s, IF signed THEN i0 + 1 ELSE i0, base, 0,
                          FALSE, FALSE))

StoIAt(s, base, i0) == StoISigned(s, base, i0, IsSign(s, i0))

StoI(s, base) == StoIAt(s, base, SkipSpace(s, 1))

(***************************************************************************)
(* std::stod(str): wcstod skips white space, takes an optional sign, then  *)
(* decimal digits with at most one radix point; no digit at all throws     *)
(* std::invalid_argument.  A double is kept as mant * 10^exp with no       *)
(* trailing zero in mant, which is exact for the short decimal strings of  *)
(* the model (they hold no exponent, no hexadecimal float, no inf or nan). *)
(***************************************************************************)
Zero == [mant |-> 0, exp |-> 0]

RECURSIVE Normalise(_, _)
Normalise(mant, exp) ==
    IF mant = 0 THEN Zero
    ELSE IF exp < 0 /\ mant % 10 = 0 THEN Normalise(mant \div 10, exp + 1)
    ELSE [mant |-> mant, exp |-> exp]

\* whole: the digits before the radix point; frac: whole and those after it.
StoDResult(neg, whole, point, frac) ==
    IF ~whole.any /\ ~frac.any THEN [ok |-> FALSE, val |-> Zero]
    ELSE [ok |-> TRUE,
          val |-> Normalise(IF neg THEN frac.n ELSE -frac.n,
                            IF point THEN (whole.end + 1) - frac.end ELSE 0)]

StoDPoint(s, neg, whole, point) ==
    StoDResult(neg, whole, point,
               IF point
               THEN Accumulate(s, whole.end + 1, 10, whole.n, FALSE, whole.ovf)
               ELSE [n |-> whole.n, any |-> FALSE, ovf |-> whole.ovf,
                     end |-> whole.end])

StoDWhole(s, neg, whole) ==
    StoDPoint(s, neg, whole, whole.end <= Len(s) /\ s[whole.end] = ".")

StoDSigned(s, i0, signed) ==
    StoDWhole(s, signed /\ s[i0] = "-",
              Accumulate(s, IF signed THEN i0 + 1 ELSE i0, 10, 0,
                         FALSE, FALSE))

StoDAt(s, i0) == StoDSigned(s, i0, IsSign(s, i0))

StoD(s) == StoDAt(s, SkipSpace(s, 1))

(***************************************************************************)
(* Bounds of the model.                                                    *)
(***************************************************************************)
\* The loader pushes at most MaxArgs arguments.
MaxArgs == 2

\* The strings of the model, as the settings file may hold them.
Str_empty == << >>
Str_0 == << "0" >>
Str_2 == << "2" >>
Str_3 == << "3" >>
Str_0A == << "0", "A" >>
Str_100 == << "1", "0", "0" >>
Str_101 == << "1", "0", "1" >>
Str_m1 == << "-", "1" >>
Str_sp7z == << " ", "+", "7", "z" >>
Str_1p50 == << "1", ".", "5", "0" >>
Str_big == << "2", "1", "4", "7", "4", "8", "3", "6", "4", "8" >>

\* What the loader assigns while the cache machine runs.
CacheStrings == { Str_empty, Str_0A, Str_1p50 }

\* What a descriptor handed to the validator may hold.
ValidStrings == { Str_empty, Str_0, Str_2, Str_3, Str_100, Str_101, Str_m1,
                  Str_sp7z, Str_big }

\* What an out-of-bounds args[argIdx] may parse to.
UBInts == { 0, 10 }
UBDoubles == { Zero, [mant |-> 15, exp |-> -1] }

RECURSIVE SeqsUpTo(_, _)
SeqsUpTo(S, n) ==
    IF n = 0 THEN { << >> }
    ELSE LET shorter == SeqsUpTo(S, n - 1)
         IN  shorter \cup { Append(q, x) : q \in shorter, x \in S }

(***************************************************************************)
(* The maps _intArgs and _doubleArgs.                                      *)
(***************************************************************************)
EmptyMap == [k \in {} |-> 0]
Put(m, k, v) == [x \in DOMAIN m \cup {k} |-> IF x = k THEN v ELSE m[x]]

(***************************************************************************)
(* The argument store.                                                     *)
(***************************************************************************)
HasArgs == args # << >>

HasArg(argIdx) ==
    IF args = << >> THEN FALSE
    ELSE SizeGE(Len(args) - 1, argIdx)

\* args.resize(n): the strings present are kept, the new ones are empty.
Resized(a, n) ==
    [k \in 1..n |-> IF k <= Len(a) THEN a[k] ELSE Str_empty]

AllocateTo(newSize) ==
    IF SizeGE(Len(args), newSize) THEN args
    ELSE Resized(args, newSize.hi * Half + newSize.lo)

AllocateArgResult(argIdx) == AllocateTo(Succ32(argIdx))

\* A variant that consults the cache without looking at _cache.
IntCacheHitIgnoringFlag(ints, argIdx) == argIdx \in DOMAIN ints
\* A variant that never finds an entry.
IntCacheHitNever(ints, argIdx) == FALSE

\* The branch at the head of ArgToInt and HexArgToInt.
IntCacheHit(ints, argIdx) == _cache /\ argIdx \in DOMAIN ints
\* A variant that stores whether or not caching is enabled.
IntCacheStoreAlways(ints, argIdx, i) == Put(ints, argIdx, i)

\* The store at their end.
IntCacheStore(ints, argIdx, i) == IF _cache THEN Put(ints, argIdx, i) ELSE ints

\* try { i = std::stoi(...) } catch (std::exception e) { i = 0; }
Caught(r, zero) == IF r.ok THEN r.val ELSE zero
ParseInt(s, base) == Caught(StoI(s, base), 0)
ParseDouble(s) == Caught(StoD(s), Zero)

\* The end of ArgToInt and HexArgToInt once they have parsed i.
IntParsed(ints, argIdx, i) ==
    [ret |-> i, parsed |-> TRUE, ints |-> IntCacheStore(ints, argIdx, i)]

\* ArgToInt(argIdx) on an index args holds, run on the cache ints:
\* what it returns, whether it parsed, and the cache it leaves.
ArgToIntOn(ints, argIdx) ==
    IF IntCacheHit(ints, argIdx)
    THEN [ret |-> ints[argIdx], parsed |-> FALSE, ints |-> ints]
    ELSE IntParsed(ints, argIdx, ParseInt(args[argIdx + 1], 10))

HexArgToIntOn(ints, argIdx) ==
    IF IntCacheHit(ints, argIdx)
    THEN [ret |-> ints[argIdx], parsed |-> FALSE, ints |-> ints]
    ELSE IntParsed(ints, argIdx, ParseInt(args[argIdx + 1], 16))

DoubleCacheHit(doubles, argIdx) == _cache /\ argIdx \in DOMAIN doubles
DoubleCacheStore(doubles, argIdx, d) ==
    IF _cache THEN Put(doubles, argIdx, d) ELSE doubles

DoubleParsed(doubles, argIdx, d) ==
    [ret |-> d, parsed |-> TRUE,
     doubles |-> DoubleCacheStore(doubles, argIdx, d)]

ArgToDoubleOn(doubles, argIdx) ==
    IF DoubleCacheHit(doubles, argIdx)
    THEN [ret |-> doubles[argIdx], parsed |-> FALSE, doubles |-> doubles]
    ELSE DoubleParsed(doubles, argIdx, ParseDouble(args[argIdx + 1]))

(***************************************************************************)
(* VolumeArgType and Valid, as functions of the current state: what the    *)
(* call returns, the reasons it logs, whether it parsed, and the cache it  *)
(* leaves.                                                                 *)
(***************************************************************************)
VolumeArgTypeResult ==
    IF HasArgs = FALSE
    THEN [ret |-> NoArgs, parsed |-> FALSE, ints |-> _intArgs]
    ELSE IF HasArg(U32(1)) = FALSE
    THEN [ret |-> Units, parsed |-> FALSE, ints |-> _intArgs]
    ELSE ArgToIntOn(_intArgs, 1)

\* The action segment of ToString().
ToStringAction ==
    IF action >= 0 /\ action < Len(ActionNames)
    THEN ActionNames[action + 1]
    ELSE "(none)"

\* LogInvalid(reason) followed by return false.
Reject(reason, ints, didParse) ==
    [ret |-> FALSE, ints |-> ints, parsed |-> didParse,
     log |-> << [hotkey |-> ToStringAction, reason |-> reason] >>]

Accept(ints, didParse) ==
    [ret |-> TRUE, ints |-> ints, parsed |-> didParse, log |-> << >>]

\* A variant with the strict bound of ToString().
ActionOutOfRangeStrict == action < 0 \/ action >= Len(ActionNames)
\* A variant that lets one more increment type through.
TypeOutOfRangeLax(type) == type < 0 \/ type > 3

KeyCombinationMissing == keyCombination <= 0
ActionOutOfRange == action < 0 \/ action > Len(ActionNames)
AmountOutOfRange(amount) == amount < 0 \/ amount > 100
ZeroIncrement(amount) ==
    amount = 0 /\ action # SetVolume /\ action # SetBrightness
TypeOutOfRange(type) == type < 0 \/ type > 2

VolumeActions == { IncreaseVolume, DecreaseVolume, SetVolume,
                   IncreaseBrightness, DecreaseBrightness, SetBrightness }
ArgumentActions == { EjectDrive, MediaKey, Run }

\* From int type = ArgToInt(1) on; a and t are the two ArgToInt calls.
ValidType(a, t) ==
    IF TypeOutOfRange(t.ret)
    THEN Reject("Unknown increment type", t.ints, a.parsed \/ t.parsed)
    ELSE Accept(t.ints, a.parsed \/ t.parsed)

\* From int amount = ArgToInt(0) on.
ValidAmount(a) ==
    IF AmountOutOfRange(a.ret)
    THEN Reject("Argument amount out of range", a.ints, a.parsed)
    ELSE IF ZeroIncrement(a.ret)
    THEN Reject("Argument increment must be nonzero", a.ints, a.parsed)
    ELSE IF HasArg(U32(1)) THEN ValidType(a, ArgToIntOn(a.ints, 1))
    ELSE Accept(a.ints, a.parsed)

ValidVolume ==
    IF HasArgs = FALSE THEN Accept(_intArgs, FALSE)
    ELSE IF args[1] = Str_empty
    THEN Reject("No first argument", _intArgs, FALSE)
    ELSE ValidAmount(ArgToIntOn(_intArgs, 0))

\* A variant that checks the action range before the key combination.
ValidResultActionFirst ==
    IF ActionOutOfRange
    THEN Reject("Invalid action", _intArgs, FALSE)
    ELSE IF KeyCombinationMissing
    THEN Reject("No key combination", _intArgs, FALSE)
    ELSE IF action \in VolumeActions THEN ValidVolume
    ELSE IF action \in ArgumentActions
    THEN IF HasArgs = FALSE
         THEN Reject("Argument required", _intArgs, FALSE)
         ELSE Accept(_intArgs, FALSE)
    ELSE Accept(_intArgs, FALSE)

ValidResult ==
    IF KeyCombinationMissing
    THEN Reject("No key combination", _intArgs, FALSE)
    ELSE IF ActionOutOfRange
    THEN Reject("Invalid action", _intArgs, FALSE)
    ELSE IF action \in VolumeActions THEN ValidVolume
    ELSE IF action \in ArgumentActions
    THEN IF HasArgs = FALSE
         THEN Reject("Argument required", _intArgs, FALSE)
         ELSE Accept(_intArgs, FALSE)
    ELSE Accept(_intArgs, FALSE)

(***************************************************************************)
(* The operations.  Every step records the call it models in lastOp,       *)
(* lastIdx, ret, parsed and log.                                           *)
(***************************************************************************)
Observe(op, argIdx, r, didParse, reasons) ==
    /\ lastOp' = op
    /\ lastIdx' = argIdx
    /\ ret' = r
    /\ parsed' = didParse
    /\ log' = reasons

\* A call op(argIdx) ends with result r: the cache it leaves, what it returns.
IntReturns(op, argIdx, r) ==
    /\ _intArgs' = r.ints
    /\ Observe(op, U32(argIdx), r.ret, r.parsed, << >>)

DoubleReturns(argIdx, r) ==
    /\ _doubleArgs' = r.doubles
    /\ Observe("ArgToDouble", U32(argIdx), r.ret, r.parsed, << >>)

ValidReturns(r) ==
    /\ _intArgs' = r.ints
    /\ Observe("Valid", U32(0), r.ret, r.parsed, r.log)

\* The indices the dispatcher reads: the amount and its type.
ReadIndices == { 0, 1 }
\* The indices the loader assigns and allocates.
ArgIndices == 0..(MaxArgs - 1)
AllocIndices == { U32(i) : i \in ArgIndices } \cup { UIntMax }

\* ArgToInt reads args[argIdx] only when the cache does not answer.
ReadsInBounds(hit, argIdx) == hit \/ HasArg(U32(argIdx))

ArgToInt(argIdx) ==
    /\ alive
    /\ ReadsInBounds(IntCacheHit(_intArgs, argIdx), argIdx)
    /\ IntReturns("ArgToInt", argIdx, ArgToIntOn(_intArgs, argIdx))
    /\ UNCHANGED <<keyCombination, action, args, _cache, _doubleArgs, alive,
                   undefined>>

HexArgToInt(argIdx) ==
    /\ alive
    /\ ReadsInBounds(IntCacheHit(_intArgs, argIdx), argIdx)
    /\ IntReturns("HexArgToInt", argIdx, HexArgToIntOn(_intArgs, argIdx))
    /\ UNCHANGED <<keyCombination, action, args, _cache, _doubleArgs, alive,
                   undefined>>

ArgToDouble(argIdx) ==
    /\ alive
    /\ ReadsInBounds(DoubleCacheHit(_doubleArgs, argIdx), argIdx)
    /\ DoubleReturns(argIdx, ArgToDoubleOn(_doubleArgs, argIdx))
    /\ UNCHANGED <<keyCombination, action, args, _cache, _intArgs, alive,
                   undefined>>

(***************************************************************************)
(* args[argIdx] past the end of the vector is undefined behaviour: the     *)
(* parser runs on whatever lies there and yields some number, or the       *)
(* process dies.                                                           *)
(***************************************************************************)
IntReadOutOfBounds(argIdx, op) ==
    /\ alive
    /\ ~ReadsInBounds(IntCacheHit(_intArgs, argIdx), argIdx)
    /\ \E i \in UBInts :
          /\ _intArgs' = IntCacheStore(_intArgs, argIdx, i)
          /\ Observe(op, U32(argIdx), i, TRUE, << >>)
    /\ UNCHANGED <<keyCombination, action, args, _cache, _doubleArgs, alive>>
    /\ undefined' = TRUE

DoubleReadOutOfBounds(argIdx) ==
    /\ alive
    /\ ~ReadsInBounds(DoubleCacheHit(_doubleArgs, argIdx), argIdx)
    /\ \E d \in UBDoubles :
          /\ _doubleArgs' = DoubleCacheStore(_doubleArgs, argIdx, d)
          /\ Observe("ArgToDouble", U32(argIdx), d, TRUE, << >>)
    /\ UNCHANGED <<keyCombination, action, args, _cache, _intArgs, alive>>
    /\ undefined' = TRUE

\* The process is gone, and the descriptor with it.
Crash(argIdx) ==
    /\ alive
    /\ \/ ~ReadsInBounds(IntCacheHit(_intArgs, argIdx), argIdx)
       \/ ~ReadsInBounds(DoubleCacheHit(_doubleArgs, argIdx), argIdx)
    /\ alive' = FALSE
    /\ undefined' = TRUE
    /\ keyCombination' = 0
    /\ action' = 0
    /\ args' = << >>
    /\ _cache' = FALSE
    /\ _intArgs' = EmptyMap
    /\ _doubleArgs' = EmptyMap
    /\ Observe("crash", U32(0), "void", FALSE, << >>)

AllocateArg(argIdx) ==
    /\ alive
    /\ args' = AllocateArgResult(argIdx)
    /\ Observe("AllocateArg", argIdx, "void", FALSE, << >>)
    /\ UNCHANGED <<keyCombination, action, _cache, _intArgs, _doubleArgs,
                   alive, undefined>>

EnableArgCache ==
    /\ alive
    /\ _cache' = TRUE
    /\ Observe("EnableArgCache", U32(0), "void", FALSE, << >>)
    /\ UNCHANGED <<keyCombination, action, args, _intArgs, _doubleArgs, alive,
                   undefined>>

\* A variant that drops the entries along with the flag.
DisableArgCacheClearing ==
    /\ alive
    /\ _cache' = FALSE
    /\ _intArgs' = EmptyMap
    /\ _doubleArgs' = EmptyMap
    /\ Observe("DisableArgCache", U32(0), "void", FALSE, << >>)
    /\ UNCHANGED <<keyCombination, action, args, alive, undefined>>

DisableArgCache ==
    /\ alive
    /\ _cache' = FALSE
    /\ Observe("DisableArgCache", U32(0), "void", FALSE, << >>)
    /\ UNCHANGED <<keyCombination, action, args, _intArgs, _doubleArgs, alive,
                   undefined>>

\* A variant of ClearArgCache that forgets _intArgs.clear().
ClearedIntsForgotten == _intArgs

ClearedInts == EmptyMap
ClearedDoubles == EmptyMap

ClearArgCache ==
    /\ alive
    /\ _intArgs' = ClearedInts
    /\ _doubleArgs' = ClearedDoubles
    /\ Observe("ClearArgCache", U32(0), "void", FALSE, << >>)
    /\ UNCHANGED <<keyCombination, action, args, _cache, alive, undefined>>

VolumeArgType ==
    /\ alive
    /\ IntReturns("VolumeArgType", 0, VolumeArgTypeResult)
    /\ UNCHANGED <<keyCombination, action, args, _cache, _doubleArgs, alive,
                   undefined>>

Valid ==
    /\ alive
    /\ ValidReturns(ValidResult)
    /\ UNCHANGED <<keyCombination, action, args, _cache, _doubleArgs, alive,
                   undefined>>

(***************************************************************************)
(* The settings loader fills the public field args: args.push_back(s) and  *)
(* args[argIdx] = s.                                                       *)
(***************************************************************************)
PushArg(s) ==
    /\ alive
    /\ Len(args) < MaxArgs
    /\ args' = Append(args, s)
    /\ Observe("push_back", U32(Len(args)), "void", FALSE, << >>)
    /\ UNCHANGED <<keyCombination, action, _cache, _intArgs, _doubleArgs,
                   alive, undefined>>

AssignArg(argIdx, s) ==
    /\ alive
    /\ argIdx < Len(args)
    /\ args' = [args EXCEPT ![argIdx + 1] = s]
    /\ Observe("assign", U32(argIdx), "void", FALSE, << >>)
    /\ UNCHANGED <<keyCombination, action, _cache, _intArgs, _doubleArgs,
                   alive, undefined>>

(***************************************************************************)
(* Spec: the cache machine.  A descriptor is constructed with no argument  *)
(* and caching off (the constructor sets _cache alone; keyCombination and  *)
(* action are what the loader assigns, here a binding whose validation     *)
(* reads its arguments); the loader and the dispatcher then call its       *)
(* operations in any order.                                                *)
(***************************************************************************)
MachineKeyCombinations == { 1 }
MachineActions == { IncreaseVolume, SetBrightness }

Constructed ==
    /\ args = << >>
    /\ _cache = FALSE
    /\ _intArgs = EmptyMap
    /\ _doubleArgs = EmptyMap
    /\ alive = TRUE
    /\ undefined = FALSE
    /\ lastOp = "HotkeyInfo"
    /\ lastIdx = U32(0)
    /\ ret = "void"
    /\ parsed = FALSE
    /\ log = << >>

Init ==
    /\ keyCombination \in MachineKeyCombinations
    /\ action \in MachineActions
    /\ Constructed

Next ==
    \/ \E i \in ReadIndices : ArgToInt(i)
    \/ \E i \in ReadIndices : HexArgToInt(i)
    \/ \E i \in ReadIndices : ArgToDouble(i)
    \/ \E i \in ReadIndices : IntReadOutOfBounds(i, "ArgToInt")
    \/ \E i \in ReadIndices : IntReadOutOfBounds(i, "HexArgToInt")
    \/ \E i \in ReadIndices : DoubleReadOutOfBounds(i)
    \/ \E i \in ReadIndices : Crash(i)
    \/ \E u \in AllocIndices : AllocateArg(u)
    \/ EnableArgCache
    \/ DisableArgCache
    \/ ClearArgCache
    \/ VolumeArgType
    \/ Valid
    \/ \E s \in CacheStrings : PushArg(s)
    \/ \E i \in ArgIndices, s \in CacheStrings : AssignArg(i, s)

Spec == Init /\ [][Next]_vars

(***************************************************************************)
(* SpecValid: the validator and VolumeArgType on every descriptor the      *)
(* loader can hand over: any key combination, any action code around the   *)
(* table, any arguments, caching on or off, and an integer cache that is   *)
(* empty or was filled by earlier reads of arguments since reassigned.     *)
(***************************************************************************)
ValidKeyCombinations == { -1, 0, 1 }
ValidActions == (-1)..(Len(ActionNames) + 1)
UsedCaches ==
    { EmptyMap,
      [k \in {0} |-> 2],
      [k \in {0, 1} |-> IF k = 0 THEN 0 ELSE 3] }

InitValid ==
    /\ keyCombination \in ValidKeyCombinations
    /\ action \in ValidActions
    /\ args \in SeqsUpTo(ValidStrings, MaxArgs)
    /\ _cache \in BOOLEAN
    /\ _intArgs \in UsedCaches
    /\ _doubleArgs = EmptyMap
    /\ alive = TRUE
    /\ undefined = FALSE
    /\ lastOp = "HotkeyInfo"
    /\ lastIdx = U32(0)
    /\ ret = "void"
    /\ parsed = FALSE
    /\ log = << >>

NextValid ==
    \/ Valid
    \/ VolumeArgType

SpecValid == InitValid /\ [][NextValid]_vars

(***************************************************************************)
(* What the properties below read off a state.                             *)
(***************************************************************************)
\* as_int(k) taken from the string alone (0 stands in where args has no k).
Fresh(k) == IF k < Len(args) THEN ParseInt(args[k + 1], 10) ELSE 0

\* The value as_int(k) has in this state: the cache entry when caching is
\* enabled and holds one, the parse of args[k] otherwise.
Cached(k) ==
    IF _cache /\ k \in DOMAIN _intArgs THEN _intArgs[k] ELSE Fresh(k)

\* The per-action argument rule that fails, or "none", where as_int(0) is
\* amount and as_int(1) is type.
SchemaFailure(amount, type) ==
    IF action \in VolumeActions /\ args # << >>
    THEN IF args[1] = Str_empty THEN "No first argument"
         ELSE IF amount < 0 \/ amount > 100
         THEN "Argument amount out of range"
         ELSE IF amount = 0 /\ action \notin {SetVolume, SetBrightness}
         THEN "Argument increment must be nonzero"
         ELSE IF Len(args) >= 2 /\ (type < 0 \/ type > 2)
         THEN "Unknown increment type"
         ELSE "none"
    ELSE IF action \in ArgumentActions /\ args = << >>
    THEN "Argument required"
    ELSE "none"

\* The first rule that fails, in the validator's order, or "none".
FirstFailure(amount, type) ==
    IF ~(keyCombination > 0) THEN "No key combination"
    ELSE IF ~(0 <= action /\ action <= Len(ActionNames)) THEN "Invalid action"
    ELSE SchemaFailure(amount, type)

\* Whether every rule holds, on the strings alone and as the call reads them.
RulesHoldFresh == FirstFailure(Fresh(0), Fresh(1)) = "none"
RulesHoldCached == FirstFailure(Cached(0), Cached(1)) = "none"

ReadOps == { "ArgToInt", "HexArgToInt", "ArgToDouble" }
CacheFreeOps == ReadOps \cup { "Valid", "VolumeArgType", "AllocateArg" }

\* What a typed read of args[k] parses to.
ParseOf(op, k) ==
    IF op = "ArgToInt" THEN ParseInt(args[k + 1], 10)
    ELSE IF op = "HexArgToInt" THEN ParseInt(args[k + 1], 16)
    ELSE ParseDouble(args[k + 1])

(***************************************************************************)
(* C1: every descriptor valid() accepts has an action code inside the      *)
(* action-name table: valid() = true implies 0 <= action < |ActionNames|.  *)
(* The validator accepts action = |ActionNames|, which ToString() renders  *)
(* as "(none)".                                                            *)
(***************************************************************************)
C1_AcceptedActionInTable ==
    (lastOp = "Valid" /\ ret = TRUE) =>
        (0 <= action /\ action < Len(ActionNames))

(***************************************************************************)
(* C2: with caching disabled, valid() returns true exactly when the key    *)
(* combination is positive, 0 <= action <= |ActionNames| and the per-action*)
(* argument rule holds on the parsed arguments.                            *)
(***************************************************************************)
C2_ValidExactly ==
    (lastOp = "Valid" /\ ~_cache) => (ret = RulesHoldFresh)

C2_Witness ==
    /\ lastOp = "Valid"
    /\ ~_cache
    /\ ret = TRUE
    /\ action = Len(ActionNames)
    /\ _intArgs # EmptyMap

(***************************************************************************)
(* C3, as claimed: valid() is a function of keyCombination, action and     *)
(* args alone, whatever calls preceded it.                                 *)
(***************************************************************************)
C3_ValidIgnoresCache ==
    (lastOp = "Valid" /\ ~undefined) => (ret = RulesHoldFresh)

(***************************************************************************)
(* C3, amended: valid() is a function of keyCombination, action, args and  *)
(* of what as_int(0) and as_int(1) return when it is called: the intCache  *)
(* entries when caching is enabled, the parsed strings otherwise.  With    *)
(* caching disabled it depends on the three fields alone, whatever the     *)
(* caches hold.                                                            *)
(***************************************************************************)
C3_ValidReadsThroughCache ==
    [][lastOp' = "Valid" =>
          /\ ret' = RulesHoldCached
          /\ ~_cache => ret' = RulesHoldFresh]_vars

C3_Witness ==
    /\ lastOp = "Valid"
    /\ ~_cache
    /\ 0 \in DOMAIN _intArgs
    /\ args # << >>
    /\ _intArgs[0] # Fresh(0)
    /\ ret = FALSE

(***************************************************************************)
(* C4: a call of valid() that returns false emits exactly one diagnostic,  *)
(* whose reason is that of the first failing rule in the order key         *)
(* combination, action range, per-action schema; a call that returns true  *)
(* emits none.                                                             *)
(***************************************************************************)
C4_OneDiagnostic ==
    lastOp = "Valid" =>
        IF ret THEN log = << >>
        ELSE /\ Len(log) = 1
             /\ log[1].reason = FirstFailure(Cached(0), Cached(1))

C4_Witness ==
    /\ lastOp = "Valid"
    /\ keyCombination = 0
    /\ action = MediaKey
    /\ args = << >>
    /\ ret = FALSE
    /\ Len(log) = 1
    /\ log[1].reason = "No key combination"

(***************************************************************************)
(* C5: with caching enabled, the as_int(i) that finds no entry for i       *)
(* parses args[i] and stores what it returns; once intCache holds an entry *)
(* for i, as_int(i) returns that entry without parsing; and an as_int(i)   *)
(* that directly follows an as_int(i) returns the same value without       *)
(* parsing.                                                                *)
(***************************************************************************)
C5_CachedReads ==
    [][(lastOp' = "ArgToInt" /\ _cache) =>
          /\ lastIdx'.lo \in DOMAIN _intArgs =>
                /\ ret' = _intArgs[lastIdx'.lo]
                /\ ~parsed'
                /\ _intArgs' = _intArgs
          /\ (lastIdx'.lo \notin DOMAIN _intArgs /\ HasArg(lastIdx')) =>
                /\ parsed'
                /\ ret' = Fresh(lastIdx'.lo)
                /\ _intArgs' = Put(_intArgs, lastIdx'.lo, ret')
          /\ (lastOp = "ArgToInt" /\ lastIdx = lastIdx') =>
                /\ ret' = ret
                /\ ~parsed']_vars

C5_Witness ==
    /\ lastOp = "ArgToInt"
    /\ _cache
    /\ ~parsed
    /\ HasArg(lastIdx)
    /\ ret = Fresh(lastIdx.lo)

(***************************************************************************)
(* C6: clear_cache() empties both caches and leaves cacheEnabled as it     *)
(* was; with caching enabled, the typed read that follows it parses the    *)
(* current args[i] and stores the result in its cache.                     *)
(***************************************************************************)
C6_ClearKeepsEnabled ==
    [][/\ lastOp' = "ClearArgCache" =>
             /\ _intArgs' = EmptyMap
             /\ _doubleArgs' = EmptyMap
             /\ _cache' = _cache
       /\ (/\ lastOp = "ClearArgCache"
           /\ _cache
           /\ lastOp' \in ReadOps
           /\ HasArg(lastIdx')) =>
             /\ parsed'
             /\ ret' = ParseOf(lastOp', lastIdx'.lo)
             /\ IF lastOp' = "ArgToDouble"
                THEN /\ lastIdx'.lo \in DOMAIN _doubleArgs'
                     /\ _doubleArgs'[lastIdx'.lo] = ret'
                ELSE /\ lastIdx'.lo \in DOMAIN _intArgs'
                     /\ _intArgs'[lastIdx'.lo] = ret']_vars

C6_Witness ==
    /\ lastOp = "ClearArgCache"
    /\ _cache
    /\ Len(args) = MaxArgs
    /\ _intArgs = EmptyMap
    /\ _doubleArgs = EmptyMap

(***************************************************************************)
(* C7: after allocate(i), has_index(i) holds, for every index of the       *)
(* unsigned 32-bit index type, the largest included.                       *)
(***************************************************************************)
C7_AllocatedIndexExists ==
    lastOp = "AllocateArg" => HasArg(lastIdx)

(***************************************************************************)
(* C8: volume_arg_kind() returns NoArgs when args is empty, Units when it  *)
(* has one element, and as_int(1) otherwise; on a descriptor with a volume *)
(* or brightness action that valid() accepts, the value is NoArgs, Units   *)
(* or Percent.                                                             *)
(***************************************************************************)
C8_VolumeArgKind ==
    lastOp = "VolumeArgType" =>
        /\ ret = IF Len(args) = 0 THEN NoArgs
                 ELSE IF Len(args) = 1 THEN Units
                 ELSE Cached(1)
        /\ (action \in VolumeActions /\ ValidResult.ret) =>
               ret \in { NoArgs, Units, Percent }

C8_Witness ==
    /\ lastOp = "VolumeArgType"
    /\ action = IncreaseVolume
    /\ Len(args) >= 2
    /\ ValidResult.ret
    /\ ret = Percent

(***************************************************************************)
(* C9: while caching is disabled, no as_int, as_hex_int, as_double, valid, *)
(* volume_arg_kind or allocate adds or changes a cache entry, and a typed  *)
(* read returns the parse of the current args[i], stale entries or not.    *)
(***************************************************************************)
C9_DisabledCacheUntouched ==
    [][(/\ ~_cache
        /\ lastOp' \in CacheFreeOps) =>
          /\ _intArgs' = _intArgs
          /\ _doubleArgs' = _doubleArgs
          /\ (lastOp' \in ReadOps /\ lastIdx'.hi = 0 /\ HasArg(lastIdx')) =>
                ret' = ParseOf(lastOp', lastIdx'.lo)]_vars

C9_Witness ==
    /\ lastOp = "ArgToInt"
    /\ ~_cache
    /\ HasArg(lastIdx)
    /\ lastIdx.lo \in DOMAIN _intArgs
    /\ _intArgs[lastIdx.lo] # ret

(***************************************************************************)
(* C10: an intCache entry is removed or replaced by clear_cache() alone,   *)
(* and while caching is enabled both as_int(i) and as_hex_int(i) return    *)
(* the entry for i, whatever args[i] has become.                           *)
(***************************************************************************)
C10_EntryStaysUntilClear ==
    [][\A i \in DOMAIN _intArgs :
          /\ (alive' /\ lastOp' # "ClearArgCache") =>
                /\ i \in DOMAIN _intArgs'
                /\ _intArgs'[i] = _intArgs[i]
          /\ (/\ lastOp' \in { "ArgToInt", "HexArgToInt" }
              /\ lastIdx' = U32(i)
              /\ _cache) => ret' = _intArgs[i]]_vars

C10_Witness ==
    /\ lastOp = "HexArgToInt"
    /\ _cache
    /\ HasArg(lastIdx)
    /\ ret # ParseInt(args[lastIdx.lo + 1], 16)
    /\ ret = _intArgs[lastIdx.lo]

=============================================================================
